---------------------------- MODULE Spec2Model ----------------------------
(***************************************************************************)
(* A model of apple_health_xml_convert.py: the conversion of an Apple      *)
(* Health export.xml into a full CSV table and a biometrics CSV table.     *)
(*                                                                         *)
(* Three specifications share the module:                                  *)
(*   SpecPreprocess  the line loop of preprocess_to_temp_file;             *)
(*   SpecType        the substitution pass on the type column;             *)
(*   Spec            main(): preprocess, the iterparse extraction loop,    *)
(*                   the table normalisation, the biometrics filter, the   *)
(*                   two CSV files and the removal of the temporary file,  *)
(*                   run twice on the same input.                          *)
(*                                                                         *)
(* A Python str is a tuple of one-character strings, so that `in`,         *)
(* str.replace and the ordering of strings are computed and not assumed.   *)
(***************************************************************************)
EXTENDS Integers, Sequences, FiniteSets, TLC

VARIABLES
  \* preprocess_to_temp_file
  infile,          \* the lines of export.xml
  pos,             \* number of lines the for loop has consumed
  skip_dtd,        \* the flag of line 41
  outfile,         \* the lines written to temp_preprocessed_export.xml
  written,         \* history: the input line numbers written, in order
  prePc,           \* "idle" | "loop" | "done"
  \* the substitution pass on one type value
  typeIn,          \* the type value before line 85
  typeVal,         \* the type value now
  typePc,          \* "idle" | "quantity" | "category" | "done"
  \* main
  pc,              \* the statement of main (or of xml_to_csv) to run next
  failedAt,        \* the stage whose exception ended the run, or "none"
  doc,             \* the parsed document: its elements in end-event order
  cleared,         \* the set of elements elem.clear() has been called on
  nextEvent,       \* index in doc of the next end event iterparse yields
  attribute_list,  \* line 66
  health_df,       \* the table xml_to_csv returns
  biometrics_df,   \* the table extract_biometrics_data returns
  files,           \* the two CSV files on disk, by filename prefix
  tempExists,      \* whether temp_preprocessed_export.xml exists
  run,             \* 1 or 2: which run of main this is
  firstFiles       \* the CSV files as the first run left them

preVars  == <<infile, pos, skip_dtd, outfile, written, prePc>>
typeVars == <<typeIn, typeVal, typePc>>
mainVars == <<pc, failedAt, doc, cleared, nextEvent, attribute_list,
              health_df, biometrics_df, files, tempExists, run, firstFiles>>
vars     == <<preVars, typeVars, mainVars>>

-----------------------------------------------------------------------------
(* Bounds *)

\* lines in export.xml
MaxLines == 4

\* fragments a type value is assembled from
MaxTypeParts == 3

\* elements below the root of the document (records and their children)
MaxNodes == 3

-----------------------------------------------------------------------------
(* String literals of the program *)

\* the one-character string "\x0b"
VT == "\\x0b"

S_DOCTYPE ==
  <<"<","!","D","O","C","T","Y","P","E">>

S_DTD_END ==
  <<"]",">">>

S_HKQuantity ==
  <<"H","K","Q","u","a","n","t","i","t","y","T","y","p","e","I","d","e","n",
    "t","i","f","i","e","r">>

S_HKCategory ==
  <<"H","K","C","a","t","e","g","o","r","y","T","y","p","e","I","d","e","n",
    "t","i","f","i","e","r">>

S_HKCharacteristic ==
  <<"H","K","C","h","a","r","a","c","t","e","r","i","s","t","i","c","T","y",
    "p","e","I","d","e","n","t","i","f","i","e","r">>

S_type ==
  <<"t","y","p","e">>

S_sourceName ==
  <<"s","o","u","r","c","e","N","a","m","e">>

S_value ==
  <<"v","a","l","u","e">>

S_unit ==
  <<"u","n","i","t">>

S_startDate ==
  <<"s","t","a","r","t","D","a","t","e">>

S_endDate ==
  <<"e","n","d","D","a","t","e">>

S_creationDate ==
  <<"c","r","e","a","t","i","o","n","D","a","t","e">>

S_TempBasalRate ==
  <<"c","o","m",".","l","o","o","p","k","i","t",".","I","n","s","u","l","i",
    "n","K","i","t",".","M","e","t","a","d","a","t","a","K","e","y","P","r",
    "o","g","r","a","m","m","e","d","T","e","m","p","B","a","s","a","l","R",
    "a","t","e">>

S_ScheduledBasalRate ==
  <<"c","o","m",".","l","o","o","p","k","i","t",".","I","n","s","u","l","i",
    "n","K","i","t",".","M","e","t","a","d","a","t","a","K","e","y","S","c",
    "h","e","d","u","l","e","d","B","a","s","a","l","R","a","t","e">>

S_AbsorptionTime ==
  <<"c","o","m",".","l","o","u","d","n","a","t","e",".","C","a","r","b","K",
    "i","t",".","H","K","M","e","t","a","d","a","t","a","K","e","y",".","A",
    "b","s","o","r","p","t","i","o","n","T","i","m","e","M","i","n","u","t",
    "e","s">>

S_RENPHO ==
  <<"R","E","N","P","H","O"," ","H","e","a","l","t","h">>

\* the characters of the values the program orders (dates, type names),
\* in code point order: Python orders str by code point
Ascii ==
  <<" ","-",".","0","1","2","3","4","5","6","7","8","9",":","A","B","C","D",
    "E","F","G","H","I","J","K","L","M","N","O","P","Q","R","S","T","U","V",
    "W","X","Y","Z","_","a","b","c","d","e","f","g","h","i","j","k","l","m",
    "n","o","p","q","r","s","t","u","v","w","x","y","z">>

-----------------------------------------------------------------------------
(* str operations *)

\* s[i:].startswith(pat)
MatchAt(s, pat, i) ==
  /\ i + Len(pat) - 1 <= Len(s)
  /\ \A k \in 1..Len(pat) : s[i + k - 1] = pat[k]

\* pat in s
Contains(s, pat) ==
  \E i \in 1..(Len(s) - Len(pat) + 1) : MatchAt(s, pat, i)

RECURSIVE ReplaceFrom(_, _, _)
\* s[i:].replace(pat, ""): the occurrences of pat are found left to right
\* and do not overlap; the text between them is kept
ReplaceFrom(s, pat, i) ==
  IF i > Len(s) THEN <<>>
  ELSE IF MatchAt(s, pat, i) THEN ReplaceFrom(s, pat, i + Len(pat))
  ELSE <<s[i]>> \o ReplaceFrom(s, pat, i + 1)

RECURSIVE RemoveFirstFrom(_, _, _)
\* s[i:].replace(pat, "", 1)
RemoveFirstFrom(s, pat, i) ==
  IF i > Len(s) THEN <<>>
  ELSE IF MatchAt(s, pat, i) THEN SubSeq(s, i + Len(pat), Len(s))
  ELSE <<s[i]>> \o RemoveFirstFrom(s, pat, i + 1)

\* s.replace(pat, "", 1): only the first occurrence goes
RemoveFirst(s, pat) == RemoveFirstFrom(s, pat, 1)

\* s.replace(pat, "")
StrReplace(s, pat) == ReplaceFrom(s, pat, 1)

\* ord(c)
CharOrd(c) == CHOOSE i \in 1..Len(Ascii) : Ascii[i] = c

RECURSIVE StrLessFrom(_, _, _)
StrLessFrom(a, b, i) ==
  IF i > Len(b) THEN FALSE
  ELSE IF i > Len(a) THEN TRUE
  ELSE IF a[i] = b[i] THEN StrLessFrom(a, b, i + 1)
  ELSE CharOrd(a[i]) < CharOrd(b[i])

\* a < b on str
StrLess(a, b) == StrLessFrom(a, b, 1)

-----------------------------------------------------------------------------
(* preprocess_to_temp_file *)

\* The lines export.xml is made of: a declaration start, a declaration end,
\* a declaration that starts and ends on one line, lines with the invisible
\* character (also inside what would otherwise be a marker), a plain line.
InputLines ==
  { S_DOCTYPE \o <<" ","a"," ","[">>,
    S_DTD_END,
    S_DOCTYPE \o <<"[","]",">">>,
    <<"a",VT,"b",VT>>,
    <<"<","!","D","O","C",VT,"T","Y","P","E">>,
    <<"]",VT,">">>,
    <<"<","a","/",">">> }

RECURSIVE SeqsUpTo(_, _)
\* the sequences over S of length at most n
SeqsUpTo(S, n) ==
  IF n = 0 THEN {<<>>}
  ELSE LET shorter == SeqsUpTo(S, n - 1)
       IN  shorter \cup
           {Append(q, x) : q \in {r \in shorter : Len(r) = n - 1}, x \in S}

\* line.replace("\x0b", "", 1)
strip_first_only(line) == RemoveFirst(line, <<VT>>)

\* line.replace("\x0b", "")
strip_invisible_character(line) == StrReplace(line, <<VT>>)

\* lines 43-44
SkipAfterStart(skip, line) ==
  IF Contains(line, S_DOCTYPE) THEN TRUE ELSE skip

\* elif ']>' in line: the end marker is not looked for on a line that holds
\* the start marker
SkipAfterEndElif(skip, line) ==
  IF Contains(line, S_DOCTYPE) THEN skip
  ELSE IF Contains(line, S_DTD_END) THEN FALSE ELSE skip

\* lines 48-49; line is the line as line 46 may have reassigned it
SkipAfterEnd(skip, line) ==
  IF Contains(line, S_DTD_END) THEN FALSE ELSE skip

InitPreprocess ==
  /\ infile \in SeqsUpTo(InputLines, MaxLines)
  /\ pos = 0
  /\ skip_dtd = FALSE
  /\ outfile = <<>>
  /\ written = <<>>
  /\ prePc = "loop"

\* one iteration of the loop of lines 42-49
PreprocessLine ==
  /\ prePc = "loop"
  /\ pos < Len(infile)
  /\ LET line     == infile[pos + 1]
         skip     == SkipAfterStart(skip_dtd, line)
         stripped == IF skip THEN line ELSE strip_invisible_character(line)
     IN  /\ outfile' = IF skip THEN outfile ELSE Append(outfile, stripped)
         /\ written' = IF skip THEN written ELSE Append(written, pos + 1)
         /\ skip_dtd' = SkipAfterEnd(skip, stripped)
  /\ pos' = pos + 1
  /\ UNCHANGED <<infile, prePc>>
  /\ UNCHANGED <<typeVars, mainVars>>

\* the loop ends, the files are closed, the path is returned (lines 51-52)
PreprocessReturn ==
  /\ prePc = "loop"
  /\ pos = Len(infile)
  /\ prePc' = "done"
  /\ UNCHANGED <<infile, pos, skip_dtd, outfile, written>>
  /\ UNCHANGED <<typeVars, mainVars>>

-----------------------------------------------------------------------------
(* The substitution pass on the type column (lines 85-86) *)

\* What a type value is assembled from: the two identifiers, the two halves
\* of one of them, and a name.
TypeParts ==
  { S_HKQuantity,
    S_HKCategory,
    SubSeq(S_HKQuantity, 1, 14),
    SubSeq(S_HKQuantity, 15, 24),
    <<"S","t","e","p","C","o","u","n","t">> }

RECURSIVE Concat(_)
\* "".join(parts)
Concat(parts) ==
  IF parts = <<>> THEN <<>> ELSE Head(parts) \o Concat(Tail(parts))

TypeStrings == {Concat(p) : p \in SeqsUpTo(TypeParts, MaxTypeParts)}

\* line 85 on one value
SubstituteQuantity(v) == StrReplace(v, S_HKQuantity)

\* line 86 with the result of str.replace not assigned back
SubstituteCategoryUnassigned(v) == v

\* line 86 on one value
SubstituteCategory(v) == StrReplace(v, S_HKCategory)

\* lines 85-86 on one value
TypeSubstitution(v) == SubstituteCategory(SubstituteQuantity(v))

InitType ==
  /\ typeIn \in TypeStrings
  /\ typeVal = typeIn
  /\ typePc = "quantity"

Line85 ==
  /\ typePc = "quantity"
  /\ typeVal' = SubstituteQuantity(typeVal)
  /\ typePc' = "category"
  /\ UNCHANGED typeIn
  /\ UNCHANGED <<preVars, mainVars>>

Line86 ==
  /\ typePc = "category"
  /\ typeVal' = SubstituteCategory(typeVal)
  /\ typePc' = "done"
  /\ UNCHANGED typeIn
  /\ UNCHANGED <<preVars, mainVars>>

-----------------------------------------------------------------------------
(* The document: what ET.iterparse hands to xml_to_csv *)

\* a missing cell (NaN); no str equals it
NaN == <<"NaN">>

S_key == <<"k","e","y">>

S_locale == <<"l","o","c","a","l","e">>

S_BloodType == <<"B","l","o","o","d","T","y","p","e">>

S_StepCount == <<"S","t","e","p","C","o","u","n","t">>

S_Day1 == <<"2","0","2","4","-","0","1","-","0","1">>

S_Day2 == <<"2","0","2","4","-","0","1","-","0","2">>

\* An element's attrib is an ordered dict: a sequence of <<name, value>>.
\* The attribs of the elements below the root: a record of the RENPHO
\* scale, a record of another source with the same type once the prefix is
\* gone, the Me element with a characteristic identifier, a record with
\* neither startDate nor creationDate, a record with no type.
ElementAttribs ==
  { << <<S_type, S_HKQuantity \o S_StepCount>>, <<S_sourceName, S_RENPHO>>,
       <<S_value, <<"1","0">>>>, <<S_startDate, S_Day2>>,
       <<S_creationDate, S_Day1>> >>,
    << <<S_type, S_StepCount>>, <<S_sourceName, <<"P","h","o","n","e">>>>,
       <<S_value, <<"5">>>>, <<S_startDate, S_Day1>>,
       <<S_creationDate, S_Day2>> >>,
    << <<S_HKCharacteristic \o S_BloodType, <<"A">>>> >>,
    << <<S_type, S_HKCategory \o <<"S","l","e","e","p">>>>,
       <<S_sourceName, S_RENPHO>>, <<S_BloodType, <<"B">>>> >>,
    << <<S_sourceName, S_RENPHO>>, <<S_startDate, S_Day2>> >> }

\* The attribs of a child of such an element: a MetadataEntry with a key
\* and a value, and a child with three attributes.
MetadataAttribs ==
  { << <<S_key, S_ScheduledBasalRate>>, <<S_value, <<"1">>>> >>,
    << <<S_key, <<"k">>>>, <<S_value, <<"v">>>>, <<S_unit, <<"u">>>> >> }

RootAttrib == << <<S_locale, <<"e","n","_","U","S">>>> >>

\* The elements in the order of their end events: the children of an
\* element end before it, the root ends last.  A "meta" is a child of the
\* next "elem"; an "elem" is a child of the root.
Documents ==
  LET items == {[kind |-> "elem", attrib |-> a] : a \in ElementAttribs} \cup
               {[kind |-> "meta", attrib |-> a] : a \in MetadataAttribs}
      below == {q \in SeqsUpTo(items, MaxNodes) :
                  q = <<>> \/ q[Len(q)].kind = "elem"}
  IN  {Append(q, [kind |-> "root", attrib |-> RootAttrib]) : q \in below}

\* the parent of element k of document d (0: none)
Parent(d, k) ==
  CASE d[k].kind = "root" -> 0
    [] d[k].kind = "elem" -> Len(d)
    [] d[k].kind = "meta" ->
         CHOOSE j \in (k + 1)..Len(d) :
           /\ d[j].kind = "elem"
           /\ \A i \in (k + 1)..(j - 1) : d[i].kind # "elem"

\* list(elem): the direct children of element n, in document order
Children(d, n) ==
  SelectSeq([k \in 1..(n - 1) |-> k], LAMBDA k : Parent(d, k) = n)

-----------------------------------------------------------------------------
(* dict operations *)

Keys(rec) == {rec[i][1] : i \in 1..Len(rec)}

\* rec.get(key, NaN)
Get(rec, key) ==
  IF key \in Keys(rec)
  THEN rec[CHOOSE i \in 1..Len(rec) : rec[i][1] = key][2]
  ELSE NaN

\* rec.update({key: value})
Update(rec, key, value) ==
  IF key \in Keys(rec)
  THEN [i \in 1..Len(rec) |->
          IF rec[i][1] = key THEN <<key, value>> ELSE rec[i]]
  ELSE Append(rec, <<key, value>>)

\* list(attrib.values())
Values(rec) == [i \in 1..Len(rec) |-> rec[i][2]]

\* elem.attrib as it is now: Element.clear() drops the element's attrib
\* (the C accelerator CPython imports gives a cleared element a new, empty
\* dict and leaves the dict already handed out untouched)
AttribNow(d, gone, k) == IF k \in gone THEN <<>> ELSE d[k].attrib

RECURSIVE MergeFrom(_, _, _, _, _)
\* lines 71-75 from the i-th child on
MergeFrom(rec, d, gone, kids, i) ==
  IF i > Len(kids) THEN rec
  ELSE LET metadata_values == Values(AttribNow(d, gone, kids[i]))
           merged == IF Len(metadata_values) = 2
                     THEN Update(rec, metadata_values[1], metadata_values[2])
                     ELSE rec
       IN  MergeFrom(merged, d, gone, kids, i + 1)

\* lines 70-75: the Record of element n
RecordOf(d, gone, n) ==
  MergeFrom(AttribNow(d, gone, n), d, gone, Children(d, n), 1)

-----------------------------------------------------------------------------
(* pandas: a DataFrame is its column labels and its rows of cells *)

Range(q) == {q[i] : i \in 1..Len(q)}

NoTable == [cols |-> <<>>, rows |-> <<>>]

RECURSIVE FirstSeen(_, _)
\* the items of q, each once, in the order of their first occurrence
FirstSeen(q, acc) ==
  IF q = <<>> THEN acc
  ELSE FirstSeen(Tail(q),
                 IF Head(q) \in Range(acc) THEN acc ELSE Append(acc, Head(q)))

\* pd.DataFrame(records, columns=list(records[0])): the columns of the
\* first record alone
FirstRecordColumns(records) ==
  IF records = <<>> THEN <<>>
  ELSE [i \in 1..Len(records[1]) |-> records[1][i][1]]

\* the column labels of pd.DataFrame(records): every key of every record,
\* in the order first met
DataFrameColumns(records) ==
  FirstSeen(Concat([r \in 1..Len(records) |->
                      [i \in 1..Len(records[r]) |-> records[r][i][1]]]), <<>>)

\* pd.DataFrame(records), line 81: one row per record, NaN where a record
\* has no such key
DataFrame(records) ==
  LET cols == DataFrameColumns(records)
  IN  [cols |-> cols,
       rows |-> [r \in 1..Len(records) |->
                   [j \in 1..Len(cols) |-> Get(records[r], cols[j])]]]

\* the position of the (first) column labelled c
ColumnIndex(df, c) == CHOOSE j \in 1..Len(df.cols) :
                        /\ df.cols[j] = c
                        /\ \A i \in 1..(j - 1) : df.cols[i] # c

\* the cell of a row under column c
Cell(df, row, c) == row[ColumnIndex(df, c)]

\* lines 85-86: .str.replace leaves NaN as it is
ReplaceTypes(df) ==
  LET t == ColumnIndex(df, S_type)
  IN  [df EXCEPT !.rows =
         [r \in 1..Len(df.rows) |->
            [j \in 1..Len(df.cols) |->
               IF j = t /\ df.rows[r][j] # NaN
               THEN TypeSubstitution(df.rows[r][j])
               ELSE df.rows[r][j]]]]

\* lines 87-88
RenameColumns(df) ==
  [df EXCEPT !.cols =
     [j \in 1..Len(df.cols) |-> StrReplace(df.cols[j], S_HKCharacteristic)]]

HasDuplicates(q) == \E i, j \in 1..Len(q) : i < j /\ q[i] = q[j]

\* lines 92-111
ShiftedCols(original_cols) ==
  LET optional(c) == IF c \in Range(original_cols) THEN <<c>> ELSE <<>>
  IN  <<S_type, S_sourceName, S_value, S_unit, S_startDate, S_endDate,
        S_creationDate>>
      \o optional(S_TempBasalRate)
      \o optional(S_ScheduledBasalRate)
      \o optional(S_AbsorptionTime)

RECURSIVE Orderings(_)
\* list(S) for a set S of str: the order follows the hashes of the
\* strings, which CPython salts anew in every process
Orderings(S) ==
  IF S = {} THEN {<<>>}
  ELSE UNION {{<<x>> \o q : q \in Orderings(S \ {x})} : x \in S}

\* df.reindex(columns=[c for c in labels if c in df]): no column is added
ReindexExisting(df, labels) ==
  LET kept == SelectSeq(labels, LAMBDA c : c \in Range(df.cols))
  IN  [cols |-> kept,
       rows |-> [r \in 1..Len(df.rows) |->
                   [j \in 1..Len(kept) |-> Cell(df, df.rows[r], kept[j])]]]

\* df.reindex(labels=labels, axis='columns'), line 115, for distinct
\* df.cols: a label df lacks becomes a column of NaN
Reindex(df, labels) ==
  [cols |-> labels,
   rows |-> [r \in 1..Len(df.rows) |->
               [j \in 1..Len(labels) |->
                  IF labels[j] \in Range(df.cols)
                  THEN Cell(df, df.rows[r], labels[j])
                  ELSE NaN]]]

\* the rows in the order given by before, a set of pairs <<i, j>> meaning
\* that row i goes before row j; rows of which neither goes before the
\* other stay in their order
SortRows(rows, before) ==
  LET n == Len(rows)
      rank(i) == 1 + Cardinality({j \in 1..n :
                       \/ <<j, i>> \in before
                       \/ (<<i, j>> \notin before /\ j < i)})
  IN  [k \in 1..n |-> rows[CHOOSE i \in 1..n : rank(i) = k]]

\* a before b in ascending order, NaN last
Ascending(a, b) ==
  IF a = NaN THEN FALSE ELSE IF b = NaN THEN TRUE ELSE StrLess(a, b)

\* a before b in descending order, NaN last
Descending(a, b) ==
  IF a = NaN THEN FALSE ELSE IF b = NaN THEN TRUE ELSE StrLess(b, a)

\* df.sort_values(by='startDate', ascending=False), line 118
SortByStartDate(df) ==
  LET n == Len(df.rows)
  IN  [df EXCEPT !.rows =
         SortRows(df.rows,
                  {p \in (1..n) \X (1..n) :
                     Descending(Cell(df, df.rows[p[1]], S_startDate),
                                Cell(df, df.rows[p[2]], S_startDate))})]

\* what lines 81-118 end in for these records
NormalizeError(records) ==
  LET df0 == DataFrame(records)
  IN  IF S_type \notin Range(df0.cols) THEN "AttributeError"  \* line 85
      ELSE IF HasDuplicates(RenameColumns(df0).cols)
           THEN "ValueError"                                   \* line 115
           ELSE "none"

\* the tables lines 81-115 can build from these records, one for each
\* order list(set(...)) can give the remaining columns
Reordered(records) ==
  LET df            == RenameColumns(ReplaceTypes(DataFrame(records)))
      original_cols == df.cols
      shifted_cols  == ShiftedCols(original_cols)
  IN  {Reindex(df, shifted_cols \o remaining_cols) :
         remaining_cols \in
           Orderings(Range(original_cols) \ Range(shifted_cols))}

-----------------------------------------------------------------------------
(* extract_biometrics_data and save_to_csv *)

\* line 135: the distinct type values (NaN among them) of the rows whose
\* sourceName is "RENPHO Health"
TypesToKeep(df) ==
  {Cell(df, df.rows[r], S_type) :
     r \in {i \in 1..Len(df.rows) :
              Cell(df, df.rows[i], S_sourceName) = S_RENPHO}}

\* df[df["sourceName"] == "RENPHO Health"]: the rows of the source alone
IsKeptBySource(df, row, types_to_keep) ==
  Cell(df, row, S_sourceName) = S_RENPHO

\* line 138: df["type"].isin(types_to_keep) on one row (isin finds NaN in
\* a list that holds NaN)
IsKept(df, row, types_to_keep) ==
  Cell(df, row, S_type) \in types_to_keep

\* line 141: by type ascending, then creationDate descending
TypeThenNewest(df, x, y) ==
  LET tx == Cell(df, x, S_type)
      ty == Cell(df, y, S_type)
  IN  IF tx # ty THEN Ascending(tx, ty)
      ELSE Descending(Cell(df, x, S_creationDate),
                      Cell(df, y, S_creationDate))

\* lines 135-143
extract_biometrics_data(df) ==
  LET types_to_keep == TypesToKeep(df)
      filtered == SelectSeq(df.rows,
                            LAMBDA row : IsKept(df, row, types_to_keep))
      n == Len(filtered)
  IN  [cols |-> df.cols,
       rows |-> SortRows(filtered,
                         {p \in (1..n) \X (1..n) :
                            TypeThenNewest(df, filtered[p[1]],
                                           filtered[p[2]])})]

NoFile == [exists |-> FALSE, header |-> <<>>, lines |-> <<>>]

\* df.to_csv(..., index=False), line 151: the header, then a line per row,
\* a NaN cell written as the empty string
Csv(df) ==
  [exists |-> TRUE,
   header |-> df.cols,
   lines  |-> [r \in 1..Len(df.rows) |->
                 [j \in 1..Len(df.cols) |->
                    IF df.rows[r][j] = NaN THEN <<>> ELSE df.rows[r][j]]]]

-----------------------------------------------------------------------------
(* main *)

\* remove_temp_file called before the second save_to_csv
StageAfterRemoveEarly(stage) ==
  CASE stage = "preprocess" -> "xml_to_csv"
    [] stage = "xml_to_csv" -> "save_full"
    [] stage = "save_full"  -> "extract"
    [] stage = "extract"    -> "remove"
    [] stage = "remove"     -> "save_bio"
    [] stage = "save_bio"   -> "done"

\* the order of the statements of main, lines 165-170
StageAfter(stage) ==
  CASE stage = "preprocess" -> "xml_to_csv"
    [] stage = "xml_to_csv" -> "save_full"
    [] stage = "save_full"  -> "extract"
    [] stage = "extract"    -> "save_bio"
    [] stage = "save_bio"   -> "remove"
    [] stage = "remove"     -> "done"

InitMain ==
  /\ doc \in Documents
  /\ pc = "preprocess"
  /\ failedAt = "none"
  /\ cleared = {}
  /\ nextEvent = 1
  /\ attribute_list = <<>>
  /\ health_df = NoTable
  /\ biometrics_df = NoTable
  /\ files = [full |-> NoFile, bio |-> NoFile]
  /\ tempExists = FALSE
  /\ run = 1
  /\ firstFiles = [full |-> NoFile, bio |-> NoFile]

\* an exception leaves main: nothing after the failing statement runs
Raise(stage) ==
  /\ pc' = "failed"
  /\ failedAt' = stage

\* line 165: the temporary file is written (its lines are those of
\* SpecPreprocess)
Preprocess ==
  /\ pc = "preprocess"
  /\ tempExists' = TRUE
  /\ pc' = StageAfter("preprocess")
  /\ UNCHANGED <<failedAt, doc, cleared, nextEvent, attribute_list,
                 health_df, biometrics_df, files, run, firstFiles>>
  /\ UNCHANGED <<preVars, typeVars>>

\* line 40: export.xml cannot be opened; the temporary file is not opened
PreprocessFails ==
  /\ pc = "preprocess"
  /\ Raise("preprocess")
  /\ UNCHANGED <<doc, cleared, nextEvent, attribute_list, health_df,
                 biometrics_df, files, tempExists, run, firstFiles>>
  /\ UNCHANGED <<preVars, typeVars>>

\* lines 68-79: the loop body for the next end event
EndEvent ==
  /\ pc = "xml_to_csv"
  /\ nextEvent <= Len(doc)
  /\ attribute_list' = Append(attribute_list, RecordOf(doc, cleared, nextEvent))
  /\ cleared' = cleared \cup {nextEvent}
  /\ nextEvent' = nextEvent + 1
  /\ UNCHANGED <<pc, failedAt, doc, health_df, biometrics_df, files,
                 tempExists, run, firstFiles>>
  /\ UNCHANGED <<preVars, typeVars>>

\* line 68: the text that follows is not well-formed, iterparse raises
\* ParseError
ParseFails ==
  /\ pc = "xml_to_csv"
  /\ nextEvent <= Len(doc)
  /\ Raise("parse")
  /\ UNCHANGED <<doc, cleared, nextEvent, attribute_list, health_df,
                 biometrics_df, files, tempExists, run, firstFiles>>
  /\ UNCHANGED <<preVars, typeVars>>

\* lines 81-115 raise
NormalizeFails ==
  /\ pc = "xml_to_csv"
  /\ nextEvent > Len(doc)
  /\ NormalizeError(attribute_list) # "none"
  /\ Raise("normalize")
  /\ UNCHANGED <<doc, cleared, nextEvent, attribute_list, health_df,
                 biometrics_df, files, tempExists, run, firstFiles>>
  /\ UNCHANGED <<preVars, typeVars>>

\* lines 81-122; sort_values raises KeyError when there is no startDate
\* column to sort by
Normalize ==
  /\ pc = "xml_to_csv"
  /\ nextEvent > Len(doc)
  /\ NormalizeError(attribute_list) = "none"
  /\ \E df \in Reordered(attribute_list) :
       IF S_startDate \in Range(df.cols)
       THEN /\ health_df' = SortByStartDate(df)
            /\ pc' = StageAfter("xml_to_csv")
            /\ UNCHANGED failedAt
       ELSE /\ Raise("normalize")
            /\ UNCHANGED health_df
  /\ UNCHANGED <<doc, cleared, nextEvent, attribute_list, biometrics_df,
                 files, tempExists, run, firstFiles>>
  /\ UNCHANGED <<preVars, typeVars>>

\* line 167
SaveFull ==
  /\ pc = "save_full"
  /\ files' = [files EXCEPT !.full = Csv(health_df)]
  /\ pc' = StageAfter("save_full")
  /\ UNCHANGED <<failedAt, doc, cleared, nextEvent, attribute_list,
                 health_df, biometrics_df, tempExists, run, firstFiles>>
  /\ UNCHANGED <<preVars, typeVars>>

\* line 168; df[...] raises KeyError for a column the table lacks
ExtractBiometrics ==
  /\ pc = "extract"
  /\ IF {S_type, S_sourceName, S_creationDate} \subseteq Range(health_df.cols)
     THEN /\ biometrics_df' = extract_biometrics_data(health_df)
          /\ pc' = StageAfter("extract")
          /\ UNCHANGED failedAt
     ELSE /\ Raise("extract")
          /\ UNCHANGED biometrics_df
  /\ UNCHANGED <<doc, cleared, nextEvent, attribute_list, health_df, files,
                 tempExists, run, firstFiles>>
  /\ UNCHANGED <<preVars, typeVars>>

\* line 169
SaveBiometrics ==
  /\ pc = "save_bio"
  /\ files' = [files EXCEPT !.bio = Csv(biometrics_df)]
  /\ pc' = StageAfter("save_bio")
  /\ UNCHANGED <<failedAt, doc, cleared, nextEvent, attribute_list,
                 health_df, biometrics_df, tempExists, run, firstFiles>>
  /\ UNCHANGED <<preVars, typeVars>>

\* line 151: the CSV file cannot be written
SaveFails ==
  /\ pc \in {"save_full", "save_bio"}
  /\ Raise(pc)
  /\ UNCHANGED <<doc, cleared, nextEvent, attribute_list, health_df,
                 biometrics_df, files, tempExists, run, firstFiles>>
  /\ UNCHANGED <<preVars, typeVars>>

\* line 170
RemoveTempFile ==
  /\ pc = "remove"
  /\ tempExists' = FALSE
  /\ pc' = StageAfter("remove")
  /\ UNCHANGED <<failedAt, doc, cleared, nextEvent, attribute_list,
                 health_df, biometrics_df, files, run, firstFiles>>
  /\ UNCHANGED <<preVars, typeVars>>

\* main is run again, the same day, on the same export.xml
RunAgain ==
  /\ pc = "done"
  /\ run = 1
  /\ run' = 2
  /\ firstFiles' = files
  /\ pc' = "preprocess"
  /\ cleared' = {}
  /\ nextEvent' = 1
  /\ attribute_list' = <<>>
  /\ health_df' = NoTable
  /\ biometrics_df' = NoTable
  /\ UNCHANGED <<failedAt, doc, files, tempExists>>
  /\ UNCHANGED <<preVars, typeVars>>

-----------------------------------------------------------------------------
(* Specifications *)

IdlePreprocess ==
  /\ infile = <<>>
  /\ pos = 0
  /\ skip_dtd = FALSE
  /\ outfile = <<>>
  /\ written = <<>>
  /\ prePc = "idle"

IdleType ==
  /\ typeIn = <<>>
  /\ typeVal = <<>>
  /\ typePc = "idle"

IdleMain ==
  /\ doc = <<>>
  /\ pc = "idle"
  /\ failedAt = "none"
  /\ cleared = {}
  /\ nextEvent = 1
  /\ attribute_list = <<>>
  /\ health_df = NoTable
  /\ biometrics_df = NoTable
  /\ files = [full |-> NoFile, bio |-> NoFile]
  /\ tempExists = FALSE
  /\ run = 1
  /\ firstFiles = [full |-> NoFile, bio |-> NoFile]

\* preprocess_to_temp_file on every file of at most MaxLines lines
InitPreprocessOnly == InitPreprocess /\ IdleType /\ IdleMain

NextPreprocess == PreprocessLine \/ PreprocessReturn

SpecPreprocess == InitPreprocessOnly /\ [][NextPreprocess]_vars

\* lines 85-86 on every type value of at most MaxTypeParts parts
InitTypeOnly == IdlePreprocess /\ InitType /\ IdleMain

NextType == Line85 \/ Line86

SpecType == InitTypeOnly /\ [][NextType]_vars

Init == IdlePreprocess /\ IdleType /\ InitMain

Next ==
  \/ Preprocess
  \/ PreprocessFails
  \/ EndEvent
  \/ ParseFails
  \/ NormalizeFails
  \/ Normalize
  \/ SaveFull
  \/ ExtractBiometrics
  \/ SaveBiometrics
  \/ SaveFails
  \/ RemoveTempFile
  \/ RunAgain

\* main, twice, on every document of at most MaxNodes elements below the
\* root
Spec == Init /\ [][Next]_vars

-----------------------------------------------------------------------------
(* Properties of preprocess_to_temp_file *)

StartsBlock(i) == Contains(infile[i], S_DOCTYPE)

EndsBlock(i) == Contains(infile[i], S_DTD_END)

\* Line i lies in a declaration block: a line s at or before it contains
\* '<!DOCTYPE' and no line from s up to the line before i contains ']>'.
\* The block reaches to the first line from s on that contains ']>', that
\* line included (s itself when it holds both markers), and to the end of
\* the input when no such line follows.
InDeclarationBlock(i) ==
  \E s \in 1..i : StartsBlock(s) /\ \A j \in s..(i - 1) : ~EndsBlock(j)

WithoutVT(line) == SelectSeq(line, LAMBDA c : c # VT)

\* C2: of the lines read so far, a line is missing from the output if and
\* only if it lies in a declaration block (from a line containing
\* '<!DOCTYPE' to the next line containing ']>', both included); the line
\* after the ']>' line of a block is written again (unless it starts a
\* block itself).
C2_DropsExactlyDeclarationBlocks ==
  /\ \A i \in 1..pos : (i \notin Range(written)) <=> InDeclarationBlock(i)
  /\ \A i \in 1..(pos - 1) :
       (InDeclarationBlock(i) /\ EndsBlock(i) /\ ~StartsBlock(i + 1))
         => (i + 1) \in Range(written)

\* a block of at least two lines was dropped, the line after its ']>' line
\* was written, and a block that starts and ends on one line was dropped
C2_Witness ==
  /\ prePc = "done"
  /\ \E s \in 1..Len(infile) :
       /\ StartsBlock(s) /\ ~EndsBlock(s)
       /\ \E e \in (s + 1)..(Len(infile) - 1) :
            /\ EndsBlock(e) /\ InDeclarationBlock(e)
            /\ e \notin Range(written)
            /\ (e + 1) \in Range(written)
  /\ \E b \in 1..Len(infile) :
       StartsBlock(b) /\ EndsBlock(b) /\ b \notin Range(written)

\* C9: the lines outside a declaration block are written once each, in
\* input order, each with every 0x0B removed and nothing else changed; with
\* no '<!DOCTYPE' in the input every line is written.
C9_EmitsOutsideLinesStripped ==
  /\ Len(outfile) = Len(written)
  /\ \A k \in 1..(Len(written) - 1) : written[k] < written[k + 1]
  /\ \A i \in 1..pos : ~InDeclarationBlock(i) => i \in Range(written)
  /\ \A k \in 1..Len(written) :
       /\ written[k] \in 1..pos
       /\ outfile[k] = WithoutVT(infile[written[k]])
  /\ (\A i \in 1..pos : ~StartsBlock(i)) => Len(outfile) = pos

\* a line with two 0x0B characters was written after a dropped block
C9_Witness ==
  /\ prePc = "done"
  /\ \E k \in 1..Len(written) :
       /\ Len(outfile[k]) + 2 = Len(infile[written[k]])
       /\ \E i \in 1..(written[k] - 1) : InDeclarationBlock(i)

-----------------------------------------------------------------------------
(* Properties of the substitution pass *)

HasNoIdentifier(s) == ~Contains(s, S_HKQuantity) /\ ~Contains(s, S_HKCategory)

\* the value without one leading identifier
NameOf(s) ==
  IF MatchAt(s, S_HKQuantity, 1) THEN SubSeq(s, Len(S_HKQuantity) + 1, Len(s))
  ELSE IF MatchAt(s, S_HKCategory, 1)
       THEN SubSeq(s, Len(S_HKCategory) + 1, Len(s))
       ELSE s

\* C10 as stated: for every type value, after lines 85-86 the value
\* contains neither identifier, and the pass applied again changes nothing.
C10_NoIdentifierLeft ==
  typePc = "done" =>
    /\ HasNoIdentifier(typeVal)
    /\ TypeSubstitution(typeVal) = typeVal

\* C10 amended: for a type value that is a name containing neither
\* identifier, with or without one of the identifiers in front, lines
\* 85-86 leave the name: it contains neither identifier and the pass
\* applied again changes nothing.
C10_PrefixedNameLosesPrefix ==
  (typePc = "done" /\ HasNoIdentifier(NameOf(typeIn))) =>
    /\ typeVal = NameOf(typeIn)
    /\ HasNoIdentifier(typeVal)
    /\ TypeSubstitution(typeVal) = typeVal

\* the category identifier was taken off a name
C10_Witness ==
  /\ typePc = "done"
  /\ MatchAt(typeIn, S_HKCategory, 1)
  /\ HasNoIdentifier(NameOf(typeIn))
  /\ typeVal = S_StepCount

-----------------------------------------------------------------------------
(* Properties of main *)

\* the loop of lines 68-79 has run for every element
ExtractionDone ==
  pc # "idle" /\ nextEvent > Len(doc) /\ Len(attribute_list) = Len(doc)

AllKeys == UNION {Keys(attribute_list[r]) : r \in 1..Len(attribute_list)}

RenamedKeys == {StrReplace(k, S_HKCharacteristic) : k \in AllKeys}

NamesStayDistinct ==
  \A k1, k2 \in AllKeys :
    k1 # k2 => StrReplace(k1, S_HKCharacteristic)
               # StrReplace(k2, S_HKCharacteristic)

PriorityColumns ==
  {S_type, S_sourceName, S_value, S_unit, S_startDate, S_endDate,
   S_creationDate}

\* how many times row occurs in rows
Count(rows, row) == Cardinality({i \in 1..Len(rows) : rows[i] = row})

\* C1 as stated: the Record appended for an element holds, for every
\* direct child with exactly two attributes, the child's first attribute
\* value as a key with the child's second attribute value as its value.
C1_RecordHoldsChildPairs ==
  \A n \in 1..Len(attribute_list) :
    \A c \in Range(Children(doc, n)) :
      Len(doc[c].attrib) = 2 =>
        Get(attribute_list[n], doc[c].attrib[1][2]) = doc[c].attrib[2][2]

C4_OneRowPerElement ==
  (health_df # NoTable /\ \A k \in 1..Len(doc) : doc[k].kind # "meta") =>
    Len(health_df.rows) = Len(doc) - 1

\* C5 as stated: the second run of main on the same input leaves the two
\* CSV files as the first run wrote them.
C5_SecondRunWritesSameFiles ==
  (run = 2 /\ pc = "done") => files = firstFiles

\* C6: the biometrics table has the columns of the full table and exactly
\* its rows whose type is among the types of the rows with sourceName
\* "RENPHO Health": each of its rows is such a row of the full table, each
\* such row is in it as often as in the full table, and it has no row when
\* no row has that sourceName.
C6_BiometricsAreExactlyTheKeptTypes ==
  biometrics_df # NoTable =>
    LET keep == {Cell(health_df, health_df.rows[r], S_type) :
                   r \in {i \in 1..Len(health_df.rows) :
                            Cell(health_df, health_df.rows[i], S_sourceName)
                              = S_RENPHO}}
    IN  /\ biometrics_df.cols = health_df.cols
        /\ \A row \in Range(biometrics_df.rows) :
             /\ row \in Range(health_df.rows)
             /\ Cell(health_df, row, S_type) \in keep
        /\ \A row \in Range(health_df.rows) :
             Cell(health_df, row, S_type) \in keep =>
               Count(biometrics_df.rows, row) = Count(health_df.rows, row)
        /\ keep = {} => biometrics_df.rows = <<>>

\* the biometrics table holds a row of another source and leaves a row of
\* the full table out
C6_Witness ==
  /\ pc = "save_bio"
  /\ \E row \in Range(biometrics_df.rows) :
       Cell(health_df, row, S_sourceName) # S_RENPHO
  /\ \E row \in Range(health_df.rows) : row \notin Range(biometrics_df.rows)

\* C7: temp_preprocessed_export.xml is removed as the last step only: it
\* exists from the end of preprocessing on, a run that ends well ends
\* without it and with both CSV files written from this run's tables, and a
\* run that fails after preprocessing ends with it.
C7_TempFileRemovedLast ==
  /\ pc \in {"xml_to_csv", "save_full", "extract", "save_bio", "remove"}
       => tempExists
  /\ pc = "done" =>
       /\ ~tempExists
       /\ health_df # NoTable /\ files.full = Csv(health_df)
       /\ biometrics_df # NoTable /\ files.bio = Csv(biometrics_df)
  /\ (pc = "failed" /\ failedAt # "preprocess") => tempExists

\* the second run failed while writing the second CSV file, after the
\* first run had removed the temporary file: the file is there
C7_Witness ==
  /\ run = 2
  /\ pc = "failed"
  /\ failedAt = "save_bio"
  /\ tempExists
  /\ files.full = Csv(health_df)

\* C8 as stated: the columns of the returned table are exactly the keys of
\* the records (with 'HKCharacteristicTypeIdentifier' removed).
C8_ColumnsAreKeyUnion ==
  health_df # NoTable => Range(health_df.cols) = RenamedKeys

\* C8 amended: the columns of the returned table are exactly the keys of
\* the records (with 'HKCharacteristicTypeIdentifier' removed) together
\* with the seven priority columns, each column once: every key is a
\* column, and a column that is no key is one of type, sourceName, value,
\* unit, startDate, endDate, creationDate.
C8_ColumnsAreKeysAndPriority ==
  health_df # NoTable =>
    /\ Range(health_df.cols) = RenamedKeys \cup PriorityColumns
    /\ ~HasDuplicates(health_df.cols)

\* a table with a renamed key as a column and with a priority column that
\* is no key
C8_Witness ==
  /\ health_df # NoTable
  /\ S_BloodType \in Range(health_df.cols)
  /\ S_BloodType \notin AllKeys
  /\ S_endDate \in Range(health_df.cols)
  /\ S_endDate \notin AllKeys
=============================================================================
